---- MODULE Spec2Model ----
(***************************************************************************)
(* A model of the cuDF JSON-lines reader (cpp/src/io/json/reader_impl.cu): *)
(* reader::impl::read and the stages it runs, ingest_raw_input,            *)
(* decompress_input, find_record_starts, upload_data_to_device,            *)
(* set_column_names, set_data_types and convert_data_to_table.             *)
(*                                                                         *)
(* Bytes are short strings, byte buffers are sequences of bytes, and an    *)
(* offset o of the C++ code (0-based) is the element o + 1 of a sequence.  *)
(***************************************************************************)
EXTENDS Integers, Sequences, FiniteSets, TLC

\* ------------------------------------------------------------------ bounds
MaxLen == 2        \* longest source, in bytes (full-reader specification)
MaxScanLen == 6    \* longest source of the record-locator specification
MaxOffset == 1     \* largest byte_range_offset a read call is given
MaxRange == 2      \* largest byte_range_size a read call is given
MaxCalls == 2      \* read calls made on one reader instance
MaxRecords == 3    \* most records of a read in the type-resolution specification
MaxKeyLen == 5     \* longest source of the key-discovery specification
MaxTypedLen == 3   \* longest source of the explicit-types specification
MaxRowLen == 4     \* longest source of the schema-discovery specification
MaxEscLen == 4     \* longest column data of the post-processing specification
MaxQuoteLen == 5   \* longest source of the quote-pass specification
MaxWindowLen == 5  \* longest source of the byte-range-window specification
MaxWindow == 3     \* largest window size of the byte-range-window specification
MaxSources == 2    \* most sources of a reader in the ingest specification
MaxIngestLen == 2  \* longest source of the ingest specification

\* ------------------------------------------------------------------- bytes
LF == "LF"        \* '\n', the record terminator
QUOTE == "QT"     \* '"', the quote character (opts_.quotechar)
CURLY == "{"
SQUARE == "["
DELIM == ","      \* opts_.delimiter
ZERO == "00"      \* the value of a byte of buffer_ that no source filled
OOB == "oob"      \* what a read outside a buffer is compared as

Letters == {"a", "b"}
Bytes == {LF, QUOTE, CURLY, SQUARE, "a"}
ScanBytes == {LF, QUOTE, "a"}

\* size_t arithmetic wraps modulo 2^64.  TLC's integers have 32 bits, so the
\* modulus is represented by 2^30: like 2^64 in the program, it exceeds every
\* buffer size and offset that occurs.
SizeModulus == 2 ^ 30

SizeSub(a, b) == (a - b + SizeModulus) % SizeModulus

\* ----------------------------------------------------------------- helpers
Min2(a, b) == IF a <= b THEN a ELSE b

RECURSIVE SeqsUpTo(_, _)
SeqsUpTo(S, n) ==
  IF n = 0 THEN {<<>>}
  ELSE LET shorter == SeqsUpTo(S, n - 1)
       IN  shorter \cup {Append(s, b) : s \in {t \in shorter : Len(t) = n - 1}, b \in S}

Range(s) == {s[i] : i \in 1..Len(s)}

\* buf[o] of the C++ code, o a 0-based offset
ByteAt(buf, o) == IF o >= 0 /\ o < Len(buf) THEN buf[o + 1] ELSE OOB

\* buf[from, to) as the C++ code slices it, 0-based and half-open
Slice(buf, from, to) ==
  IF to <= from THEN <<>> ELSE SubSeq(buf, from + 1, Min2(to, Len(buf)))

RECURSIVE Concat(_)
Concat(ss) == IF ss = <<>> THEN <<>> ELSE Head(ss) \o Concat(Tail(ss))

RECURSIVE SumLen(_)
SumLen(ss) == IF ss = <<>> THEN 0 ELSE Len(Head(ss)) + SumLen(Tail(ss))

IsPrefix(s, t) == Len(s) <= Len(t) /\ SubSeq(t, 1, Len(s)) = s

IsSorted(s) == \A i \in 1..(Len(s) - 1) : s[i] <= s[i + 1]

StrictlyIncreasing(s) == \A i \in 1..(Len(s) - 1) : s[i] < s[i + 1]

\* s rearranged by the permutation p of 1..Len(s)
Permuted(s, p) == [i \in 1..Len(s) |-> s[p[i]]]

\* thrust::sort(rec_starts.begin(), rec_starts.end())
SortUnsorted(s) == s
Sort(s) == SortSeq(s, LAMBDA a, b : a < b)

\* ------------------------------------------------- 4.1 find_record_starts
\* count_all_from_set / find_all_from_set with offset 1: the positions AFTER
\* each byte of `buf` that is in `chars`, here in ascending order
RECURSIVE FindAllFromSet(_, _, _)
FindAllFromSet(buf, chars, from) ==
  IF from >= Len(buf) THEN <<>>
  ELSE IF ByteAt(buf, from) \in chars
       THEN <<from + 1>> \o FindAllFromSet(buf, chars, from + 1)
       ELSE FindAllFromSet(buf, chars, from + 1)

\* chars_to_count / chars_to_find
CharsToFind(allow_newlines) == IF allow_newlines THEN {LF, QUOTE} ELSE {LF}

\* the extra row for the first row of the file
ImplicitFirstRowAlways(byte_range_offset) == <<0>>
ImplicitFirstRow(byte_range_offset) == IF byte_range_offset = 0 THEN <<0>> ELSE <<>>

\* the host loop with a quote that follows a backslash taken for an escaped
\* one, which toggles nothing
RECURSIVE QuotePassEscapeAware(_, _, _, _, _)
QuotePassEscapeAware(uncomp, h, i, quotation, filtered_count) ==
  IF i >= Len(h) THEN [h |-> h, filtered_count |-> filtered_count]
  ELSE IF ByteAt(uncomp, h[i + 1] - 1) = QUOTE /\ ByteAt(uncomp, h[i + 1] - 2) # "\\"
       THEN QuotePassEscapeAware(uncomp, [h EXCEPT ![i + 1] = Len(uncomp)], i + 1,
                                 ~quotation, filtered_count - 1)
       ELSE IF quotation
            THEN QuotePassEscapeAware(uncomp, [h EXCEPT ![i + 1] = Len(uncomp)], i + 1,
                                      quotation, filtered_count - 1)
            ELSE QuotePassEscapeAware(uncomp, h, i + 1, quotation, filtered_count)

\* the host loop over the sorted table, from index i on: h is h_rec_starts
RECURSIVE QuotePass(_, _, _, _, _)
QuotePass(uncomp, h, i, quotation, filtered_count) ==
  IF i >= Len(h) THEN [h |-> h, filtered_count |-> filtered_count]
  ELSE IF ByteAt(uncomp, h[i + 1] - 1) = QUOTE
       THEN QuotePass(uncomp, [h EXCEPT ![i + 1] = Len(uncomp)], i + 1,
                      ~quotation, filtered_count - 1)
       ELSE IF quotation
            THEN QuotePass(uncomp, [h EXCEPT ![i + 1] = Len(uncomp)], i + 1,
                           quotation, filtered_count - 1)
            ELSE QuotePass(uncomp, h, i + 1, quotation, filtered_count)

\* "Exclude the ending newline as it does not precede a record start"
ExcludeEndingNewline(uncomp, filtered_count) ==
  IF ByteAt(uncomp, Len(uncomp) - 1) = LF THEN filtered_count - 1 ELSE filtered_count

\* find_record_starts: `scan` is the buffer the device scans (data_ when the
\* whole file is loaded, the host buffer otherwise), `emit` the order in which
\* the threads of find_all_from_set store the positions they found
FilteredRecordStarts(uncomp, scan, byte_range_offset, allow_newlines, emit) ==
  LET found == FindAllFromSet(scan, CharsToFind(allow_newlines), 0)
      prefilter == ImplicitFirstRow(byte_range_offset) \o Permuted(found, emit)
      sorted == Sort(prefilter)
  IN  IF allow_newlines
      THEN LET q == QuotePass(uncomp, sorted, 1, FALSE, Len(sorted))
           IN  [h |-> Sort(q.h), filtered_count |-> q.filtered_count]
      ELSE [h |-> sorted, filtered_count |-> Len(sorted)]

FindRecordStarts(uncomp, scan, byte_range_offset, allow_newlines, emit) ==
  LET passed == FilteredRecordStarts(uncomp, scan, byte_range_offset, allow_newlines, emit)
  IN  SubSeq(passed.h, 1, ExcludeEndingNewline(uncomp, passed.filtered_count))

\* the emission orders of a scan that finds n positions
EmitOrders(n) == Permutations(1..n)

NumFound(scan, allow_newlines) == Len(FindAllFromSet(scan, CharsToFind(allow_newlines), 0))

\* ---------------------------------------------- 4.2 upload_data_to_device
\* the loop that walks `it` down from the last entry: it is a 0-based index
RECURSIVE TrimScan(_, _, _, _)
TrimScan(h, it, byte_range_size, end_offset) ==
  IF it >= 0 /\ h[it + 1] > byte_range_size
  THEN TrimScan(h, it - 1, byte_range_size, h[it + 1])
  ELSE [it |-> it, end_offset |-> end_offset]

\* the trimming left out: every entry is kept
TrimToRangeKeepsAll(h, uncomp_size, byte_range_size) ==
  [h |-> h, end_offset |-> uncomp_size]

\* h_rec_starts and end_offset after "Trim lines that are outside range"
TrimToRange(h, uncomp_size, byte_range_size) ==
  IF byte_range_size # 0
  THEN LET t == TrimScan(h, Len(h) - 1, byte_range_size, uncomp_size)
       IN  [h |-> SubSeq(h, 1, t.it + 1), end_offset |-> t.end_offset]
  ELSE [h |-> h, end_offset |-> uncomp_size]

\* h_rec_starts.front().  On an empty vector this is undefined behaviour; the
\* outcomes are any value (the stale first element among them) or an abort.
FrontValues(h, uncomp_size) == IF h # <<>> THEN {h[1]} ELSE 0..uncomp_size

\* thrust::transform(..., thrust::minus<uint64_t>())
Rebase(h, start_offset) == [i \in 1..Len(h) |-> SizeSub(h[i], start_offset)]

\* upload_data_to_device for one outcome `front` of h_rec_starts.front()
UploadDataToDeviceUnchecked(rec_starts, uncomp, byte_range_offset, byte_range_size, front) ==
  LET trims == byte_range_size # 0 \/ byte_range_offset # 0
      t == IF trims THEN TrimToRange(rec_starts, Len(uncomp), byte_range_size)
           ELSE [h |-> rec_starts, end_offset |-> Len(uncomp)]
      start_offset == IF trims THEN front ELSE 0
      bytes_to_upload == SizeSub(t.end_offset, start_offset)
  IN  [rec_starts |-> IF trims THEN Rebase(t.h, start_offset) ELSE rec_starts,
       start_offset |-> start_offset,
       end_offset |-> t.end_offset,
       bytes_to_upload |-> bytes_to_upload,
       ok |-> TRUE,
       data |-> Slice(uncomp, start_offset, start_offset + bytes_to_upload)]
UploadDataToDevice(rec_starts, uncomp, byte_range_offset, byte_range_size, front) ==
  LET trims == byte_range_size # 0 \/ byte_range_offset # 0
      t == IF trims THEN TrimToRange(rec_starts, Len(uncomp), byte_range_size)
           ELSE [h |-> rec_starts, end_offset |-> Len(uncomp)]
      start_offset == IF trims THEN front ELSE 0
      bytes_to_upload == SizeSub(t.end_offset, start_offset)
  IN  [rec_starts |-> IF trims THEN Rebase(t.h, start_offset) ELSE rec_starts,
       start_offset |-> start_offset,
       end_offset |-> t.end_offset,
       bytes_to_upload |-> bytes_to_upload,
       ok |-> bytes_to_upload <= Len(uncomp),
       data |-> IF bytes_to_upload <= Len(uncomp)
                THEN Slice(uncomp, start_offset, start_offset + bytes_to_upload)
                ELSE <<>>]

\* ------------------------------------------------------ ingest, decompress
max_row_bytes == 16384
column_bytes == 64
base_padding == 1024

calculate_max_row_size(num_columns) ==
  IF num_columns = 0 THEN max_row_bytes ELSE base_padding + num_columns * column_bytes

\* map_range_size of ingest_raw_input
MapRangeSize(range_size, dtype_option_size) ==
  IF range_size # 0 THEN range_size + calculate_max_row_size(dtype_option_size) ELSE 0

\* datasource::host_read(offset, size, dst): the bytes it copies
HostRead(source, offset, size) == Slice(source, offset, offset + size)

\* the bytes the loop over sources_ stores at the front of buffer_
RECURSIVE ReadSources(_, _, _)
ReadSources(sources, range_offset, map_range_size) ==
  IF sources = <<>> THEN <<>>
  ELSE LET source == Head(sources)
           data_size == IF map_range_size # 0 THEN map_range_size ELSE Len(source)
       IN  (IF source # <<>> THEN HostRead(source, range_offset, data_size) ELSE <<>>)
           \o ReadSources(Tail(sources), range_offset, map_range_size)

\* total_source_size of ingest_raw_input, as size_t
TotalSourceSize(sources, range_offset) == SizeSub(SumLen(sources), range_offset)

\* buffer_ after ingest_raw_input: resized to total_source_size (new bytes
\* are zero), then filled from the front with the bytes read
IngestRawInput(sources, range_offset, range_size, dtype_option_size) ==
  LET total == TotalSourceSize(sources, range_offset)
      bytes == ReadSources(sources, range_offset,
                           MapRangeSize(range_size, dtype_option_size))
  IN  [i \in 1..total |-> IF i <= Len(bytes) THEN bytes[i] ELSE ZERO]

\* buffer_.resize(n) throws when n is beyond what can be allocated
CanAllocate(n) == n < SizeModulus \div 2

\* the stored form of a compressed source: one header byte, then the payload
GZ == "gz"
Compress(payload) == <<GZ>> \o payload

\* get_uncompressed_data(buffer, compression_type)
GetUncompressedData(buffer) ==
  IF buffer # <<>> /\ Head(buffer) = GZ THEN Tail(buffer) ELSE <<>>

\* uncomp_data_ / uncomp_size_ after decompress_input
DecompressInput(buffer, compression_type) ==
  IF compression_type = "none" THEN buffer ELSE GetUncompressedData(buffer)

\* ------------------------------------------------- 4.3 set_column_names
\* std::find(first_row.begin(), first_row.end(), c) as a 0-based position,
\* first_row.size() when c does not occur
RECURSIVE FindFirst(_, _, _)
FindFirst(row, c, from) ==
  IF from >= Len(row) THEN Len(row)
  ELSE IF ByteAt(row, from) = c THEN from ELSE FindFirst(row, c, from + 1)

\* first_row of set_column_names
FirstRow(data, rec_starts) ==
  LET first_row_len == IF Len(rec_starts) > 1 THEN rec_starts[2] ELSE Len(data)
  IN  Slice(data, 0, first_row_len)

IsValidJson(first_row) ==
  FindFirst(first_row, CURLY, 0) # Len(first_row) \/ FindFirst(first_row, SQUARE, 0) # Len(first_row)

\* "If the first opening bracket is '{', assume object format"
RowsAreObjectsAnyCurly(first_row) == FindFirst(first_row, CURLY, 0) # Len(first_row)
RowsAreObjects(first_row) == FindFirst(first_row, CURLY, 0) < FindFirst(first_row, SQUARE, 0)

Digit(d) == CASE d = 0 -> "0" [] d = 1 -> "1" [] d = 2 -> "2" [] d = 3 -> "3"
              [] d = 4 -> "4" [] d = 5 -> "5" [] d = 6 -> "6" [] d = 7 -> "7"
              [] d = 8 -> "8" [] d = 9 -> "9"

\* std::to_string(n), n >= 0: the decimal digits of n
RECURSIVE to_string(_)
to_string(n) == IF n < 10 THEN <<Digit(n)>> ELSE to_string(n \div 10) \o <<Digit(n % 10)>>

\* the loop over first_row for array rows: the names it appends
RECURSIVE ArrayColumnNames(_, _, _, _)
ArrayColumnNames(first_row, pos, quotation, cols_found) ==
  IF pos >= Len(first_row) THEN <<>>
  ELSE IF ByteAt(first_row, pos) = QUOTE
       THEN ArrayColumnNames(first_row, pos + 1, ~quotation, cols_found)
       ELSE IF pos = Len(first_row) - 1 \/ (~quotation /\ ByteAt(first_row, pos) = DELIM)
            THEN <<to_string(cols_found)>>
                 \o ArrayColumnNames(first_row, pos + 1, quotation, cols_found + 1)
            ELSE ArrayColumnNames(first_row, pos + 1, quotation, cols_found)

\* --- object rows: the key table, its aggregation and the column map
ByteCode(b) == IF b = "a" THEN 1 ELSE IF b = "b" THEN 2 ELSE 0

\* the 32-bit hash of a key: equal texts hash alike, different texts may collide
RECURSIVE KeyHash(_)
KeyHash(text) == IF text = <<>> THEN 0 ELSE ByteCode(Head(text)) + KeyHash(Tail(text))

\* the end (exclusive) of the run of key bytes that starts at `from`
RECURSIVE KeyEnd(_, _, _)
KeyEnd(data, from, row_end) ==
  IF from < row_end /\ ByteAt(data, from) \in Letters THEN KeyEnd(data, from + 1, row_end)
  ELSE from

\* collect_keys_info over one row [from, row_end): one (offset, length, hash)
\* row per key of the row
RECURSIVE RowKeys(_, _, _)
RowKeys(data, from, row_end) ==
  IF from >= row_end THEN <<>>
  ELSE IF ByteAt(data, from) \in Letters
       THEN LET e == KeyEnd(data, from, row_end)
            IN  <<[offset |-> from, len |-> e - from,
                   hash |-> KeyHash(Slice(data, from, e))]>> \o RowKeys(data, e, row_end)
       ELSE RowKeys(data, from + 1, row_end)

\* collect_keys_info over all rows, in row order
RECURSIVE CollectKeysInfo(_, _, _)
CollectKeysInfo(data, rec_starts, r) ==
  IF r > Len(rec_starts) THEN <<>>
  ELSE LET row_end == IF r < Len(rec_starts) THEN rec_starts[r + 1] ELSE Len(data)
       IN  RowKeys(data, rec_starts[r], Min2(row_end, Len(data)))
           \o CollectKeysInfo(data, rec_starts, r + 1)

\* create_json_keys_info_table: the rows as the threads of the fill pass store
\* them, each at the index it draws from the running key counter
CreateJsonKeysInfoTable(data, rec_starts, fill) ==
  Permuted(CollectKeysInfo(data, rec_starts, 1), fill)

NumKeys(data, rec_starts) == Len(CollectKeysInfo(data, rec_starts, 1))

SetMin(S) == CHOOSE m \in S : \A x \in S : m <= x

\* the hashes of the table in the order in which each first appears
RECURSIVE HashesInOrder(_, _)
HashesInOrder(info, seen) ==
  IF info = <<>> THEN <<>>
  ELSE IF Head(info).hash \in seen THEN HashesInOrder(Tail(info), seen)
       ELSE <<Head(info).hash>> \o HashesInOrder(Tail(info), seen \cup {Head(info).hash})

\* aggregate_keys_info: group by hash; per group results[0] of the offsets
\* request and results[0] of the lengths request, both of them min aggregations
AggregateKeysInfo(info) ==
  LET hashes == HashesInOrder(info, {})
  IN  [g \in 1..Len(hashes) |->
        [offset |-> SetMin({info[i].offset : i \in {j \in 1..Len(info) : info[j].hash = hashes[g]}}),
         len |-> SetMin({info[i].len : i \in {j \in 1..Len(info) : info[j].hash = hashes[g]}}),
         hash |-> hashes[g]]]

\* sort_keys_info_by_offset: sort_by_key on the aggregated offsets
KeysInfoUnsorted(info) == info
SortKeysInfoByOffset(info) == SortSeq(info, LAMBDA x, y : x.offset < y.offset)

\* create_key_strings: std::string(h_data + offset, len) for each row
CreateKeyStrings(h_data, sorted_info) ==
  [i \in 1..Len(sorted_info) |->
     Slice(h_data, sorted_info[i].offset, sorted_info[i].offset + sorted_info[i].len)]

\* create_col_names_hash_map with the columns counted from one
CreateColNamesHashMapFromOne(sorted_info) ==
  [is_null |-> FALSE,
   entries |-> {<<sorted_info[idx].hash, idx>> : idx \in 1..Len(sorted_info)}]

\* create_col_names_hash_map: map.insert(column_data[idx], idx) for each idx
CreateColNamesHashMap(sorted_info) ==
  [is_null |-> FALSE,
   entries |-> {<<sorted_info[idx + 1].hash, idx>> : idx \in 0..(Len(sorted_info) - 1)}]

\* get_json_object_keys_hashes: it slices the names out of uncomp_data_
GetJsonObjectKeysHashes(uncomp, data, rec_starts, fill) ==
  LET info == CreateJsonKeysInfoTable(data, rec_starts, fill)
      sorted_info == SortKeysInfoByOffset(AggregateKeysInfo(info))
  IN  [names |-> CreateKeyStrings(uncomp, sorted_info),
       map |-> CreateColNamesHashMap(sorted_info)]

\* key_to_col_idx_map_ before any set_column_map
NullMap == [is_null |-> TRUE, entries |-> {}]

\* -------------------------------------------------- 4.4 set_data_types
Classes == {"null_count", "bool_count", "positive_small_int_count",
            "negative_small_int_count", "big_int_count", "float_count",
            "datetime_count", "string_count"}

HistTotal(cinfo) ==
  cinfo.null_count + cinfo.bool_count + cinfo.positive_small_int_count
  + cinfo.negative_small_int_count + cinfo.big_int_count + cinfo.float_count
  + cinfo.datetime_count + cinfo.string_count

\* what detect_data_types can return for one column of a read of n records:
\* every row adds at most one occurrence to a column
ZeroHistogram == [c \in Classes |-> 0]

RECURSIVE Histograms(_)
Histograms(n) ==
  IF n = 0 THEN {ZeroHistogram}
  ELSE LET fewer == Histograms(n - 1)
       IN  fewer \cup {[h EXCEPT ![c] = @ + 1] : h \in fewer, c \in Classes}

NoField == "none"

\* detect_data_types over a read of n records in which every field has the
\* value class field_class (NoField: the rows hold no field).  For object
\* rows (do_set_null_count) a column's null count starts at the record count
\* and every non-null value takes one off; for array rows it starts at zero,
\* every null field adds one, and a column past the last field of the rows
\* gets no occurrence at all.
DetectDataTypes(n, num_columns, fields_per_row, field_class, do_set_null_count) ==
  [i \in 1..num_columns |->
     IF do_set_null_count
     THEN IF field_class \in {NoField, "null_count"}
          THEN [ZeroHistogram EXCEPT !["null_count"] = n]
          ELSE [ZeroHistogram EXCEPT ![field_class] = n]
     ELSE IF field_class # NoField /\ i <= fields_per_row
          THEN [ZeroHistogram EXCEPT ![field_class] = n]
          ELSE ZeroHistogram]

FAIL == "FAIL"

\* get_type_id with the UINT64 test ahead of the STRING test for mixed signs
GetTypeIdUnsignedFirst(cinfo, num_records) ==
  LET int_count_total ==
        cinfo.big_int_count + cinfo.negative_small_int_count + cinfo.positive_small_int_count
  IN  IF cinfo.null_count = num_records THEN "INT8"
      ELSE IF cinfo.string_count > 0 THEN "STRING"
      ELSE IF cinfo.datetime_count > 0 THEN "TIMESTAMP_MILLISECONDS"
      ELSE IF cinfo.float_count > 0 \/ (int_count_total > 0 /\ cinfo.null_count > 0)
           THEN "FLOAT64"
      ELSE IF cinfo.big_int_count = 0 /\ int_count_total # 0 THEN "INT64"
      ELSE IF cinfo.big_int_count # 0 THEN "UINT64"
      ELSE IF cinfo.big_int_count # 0 /\ cinfo.negative_small_int_count # 0 THEN "STRING"
      ELSE IF cinfo.bool_count > 0 THEN "BOOL8"
      ELSE FAIL

\* get_type_id with the records that hold no integer taken for nulls
GetTypeIdMissingAsNull(cinfo, num_records) ==
  LET int_count_total ==
        cinfo.big_int_count + cinfo.negative_small_int_count + cinfo.positive_small_int_count
  IN  IF cinfo.null_count = num_records THEN "INT8"
      ELSE IF cinfo.string_count > 0 THEN "STRING"
      ELSE IF cinfo.datetime_count > 0 THEN "TIMESTAMP_MILLISECONDS"
      ELSE IF cinfo.float_count > 0 \/ (int_count_total > 0 /\ int_count_total < num_records)
           THEN "FLOAT64"
      ELSE IF cinfo.big_int_count = 0 /\ int_count_total # 0 THEN "INT64"
      ELSE IF cinfo.big_int_count # 0 /\ cinfo.negative_small_int_count # 0 THEN "STRING"
      ELSE IF cinfo.big_int_count # 0 THEN "UINT64"
      ELSE IF cinfo.bool_count > 0 THEN "BOOL8"
      ELSE FAIL

\* the lambda get_type_id of set_data_types; FAIL is CUDF_FAIL
GetTypeId(cinfo, num_records) ==
  LET int_count_total ==
        cinfo.big_int_count + cinfo.negative_small_int_count + cinfo.positive_small_int_count
  IN  IF cinfo.null_count = num_records THEN "INT8"
      ELSE IF cinfo.string_count > 0 THEN "STRING"
      ELSE IF cinfo.datetime_count > 0 THEN "TIMESTAMP_MILLISECONDS"
      ELSE IF cinfo.float_count > 0 \/ (int_count_total > 0 /\ cinfo.null_count > 0)
           THEN "FLOAT64"
      ELSE IF cinfo.big_int_count = 0 /\ int_count_total # 0 THEN "INT64"
      ELSE IF cinfo.big_int_count # 0 /\ cinfo.negative_small_int_count # 0 THEN "STRING"
      ELSE IF cinfo.big_int_count # 0 THEN "UINT64"
      ELSE IF cinfo.bool_count > 0 THEN "BOOL8"
      ELSE FAIL

\* the std::transform over h_column_infos: the types it appends to dtypes_
\* before get_type_id throws, or all of them
RECURSIVE InferredTypes(_, _)
InferredTypes(infos, num_records) ==
  IF infos = <<>> THEN <<>>
  ELSE LET t == GetTypeId(Head(infos), num_records)
       IN  IF t = FAIL THEN <<>> ELSE <<t>> \o InferredTypes(Tail(infos), num_records)

\* ------------------------------------------------------------- the reader
VARIABLES
  pc,                          \* where the current read call stands
  calls,                       \* read calls started on this reader
  trace,                       \* the stages the current call has run, in order
  sources_,                    \* the byte sources, fixed at construction
  compression_type,            \* "none", or the codec of the sources
  allow_newlines_in_strings_,  \* quote-aware record splitting
  is_enabled_lines,            \* options_.is_enabled_lines()
  opt_dtypes,                  \* options_.get_dtypes() when it holds a list
  opt_dtypes_by_name,          \* options_.get_dtypes() when it holds a map
  range_offset, range_size,    \* the byte range of the options
  field_class,                 \* the value class of the fields of the sources
  byte_range_offset_, byte_range_size_, load_whole_file_,
  buffer_, uncomp_data_, data_,
  rec_starts,                  \* the local rec_starts of read()
  start_offset,                \* start_offset of the last upload_data_to_device
  column_names,                \* metadata_.column_names
  key_to_col_idx_map_,
  dtypes_,
  h_column_infos,              \* what detect_data_types returned to this call
  result,                      \* the table the call returned, or NoTable
  h_valid_counts,              \* h_valid_counts of the last convert_data_to_table
  q_cinfo, q_records, q_types, \* two type-resolution queries and their answers
  q_raw, q_out,                \* a converted column, and the output column made of it
  stream,                      \* the stream argument of the call
  stream_blocks,               \* the stream synchronizes with the default stream
  rec_count,                   \* rec_starts.size() of the call whose device work is followed
  host,                        \* the statement of Program the host thread is at
  pending,                     \* the device work issued and not yet complete, in issue order
  completed,                   \* the device work that is complete
  issued,                      \* every piece of device work issued, with its stream
  unsynced,                    \* work issued to `stream` since it was last synchronized
  observed,                    \* the values the host has read out of asynchronous copies
  raced                        \* the work that ran before the work it depends on was complete

reader_vars == <<sources_, compression_type, allow_newlines_in_strings_,
                 is_enabled_lines, opt_dtypes,
                 opt_dtypes_by_name,
                 range_offset, range_size, field_class>>
call_vars == <<calls>>
ingest_vars == <<byte_range_offset_, byte_range_size_, load_whole_file_, buffer_>>
schema_vars == <<column_names, key_to_col_idx_map_, dtypes_, h_column_infos>>
query_vars == <<q_cinfo, q_records, q_types, q_raw, q_out>>
device_vars == <<stream, stream_blocks, rec_count, host, pending, completed, issued,
                 unsynced, observed, raced>>

vars == <<pc, trace, reader_vars, call_vars, ingest_vars, uncomp_data_, data_,
          rec_starts, start_offset, schema_vars, result, h_valid_counts, query_vars, device_vars>>

\* no table returned (a returned table has at least one column)
NoTable == [columns |-> <<>>, column_names |-> <<>>]
NoTypes == <<>>

Stages == <<"ingest", "decompress", "locate", "stage", "names", "types", "materialize">>

\* read(): the statement that follows each stage
NextStageReordered(stage) ==
  CASE stage = "ingest" -> "decompress"
    [] stage = "decompress" -> "locate"
    [] stage = "locate" -> "names"
    [] stage = "names" -> "stage"
    [] stage = "stage" -> "types"
    [] stage = "types" -> "materialize"
    [] stage = "materialize" -> "done"
NextStage(stage) ==
  CASE stage = "ingest" -> "decompress"
    [] stage = "decompress" -> "locate"
    [] stage = "locate" -> "stage"
    [] stage = "stage" -> "names"
    [] stage = "names" -> "types"
    [] stage = "types" -> "materialize"
    [] stage = "materialize" -> "done"

\* CUDF_EXPECTS(cond, ...) after a stage of read(): a throw ends the call
ExpectsIgnored(cond, stage) == NextStage(stage)
Expects(cond, stage) == IF cond THEN NextStage(stage) ELSE "failed"

\* options_.get_dtypes(): a list of types or a map from column name to type,
\* one of the two; both empty when the caller supplied no types
EmptyMap == [name \in {} |-> "INT8"]
InferTypes == [list |-> <<>>, by_name |-> EmptyMap]
TypeList(list) == [list |-> list, by_name |-> EmptyMap]
TypeMap(by_name) == [list |-> <<>>, by_name |-> by_name]

\* std::visit(dtypes.size()) and std::visit(dtypes.empty())
DtypeOptionSize(list, by_name) == Len(list) + Cardinality(DOMAIN by_name)
HasToInferColumnTypes(list, by_name) == DtypeOptionSize(list, by_name) = 0

\* the std::visit over options_.get_dtypes() of set_data_types: the types it
\* returns for the discovered names, or the CUDF_EXPECTS that throws
ExplicitTypesUnchecked(list, by_name, names) ==
  IF list # <<>>
  THEN [ok |-> TRUE, dtypes |-> list]
  ELSE [ok |-> TRUE,
        dtypes |-> [i \in 1..Len(names) |->
                      IF names[i] \in DOMAIN by_name THEN by_name[names[i]] ELSE "INT8"]]
ExplicitTypes(list, by_name, names) ==
  IF list # <<>>
  THEN IF Len(list) = Len(names)
       THEN [ok |-> TRUE, dtypes |-> list]
       ELSE [ok |-> FALSE, dtypes |-> <<>>]
  ELSE IF \A i \in 1..Len(names) : names[i] \in DOMAIN by_name
       THEN [ok |-> TRUE, dtypes |-> [i \in 1..Len(names) |-> by_name[names[i]]]]
       ELSE [ok |-> FALSE, dtypes |-> <<>>]

\* reader::impl::impl: CUDF_EXPECTS(options_.is_enabled_lines(), ...); when it
\* throws there is no reader to call read on
ConstructAnyMode(lines) == "idle"
Construct(lines) == IF lines THEN "idle" ELSE "rejected"

\* the reader as constructed over its sources, before any read call.  Every
\* read call is given the options the reader was constructed with.
InitReaderOver(source_lists, flags, codecs, dtype_options, classes, offsets, sizes) ==
  /\ is_enabled_lines \in BOOLEAN
  /\ pc = Construct(is_enabled_lines)
  /\ calls = 0
  /\ trace = <<>>
  /\ \E srcs \in source_lists, codec \in codecs :
       /\ compression_type = codec
       /\ sources_ = [i \in 1..Len(srcs) |->
                        IF codec = "none" THEN srcs[i] ELSE Compress(srcs[i])]
  /\ allow_newlines_in_strings_ \in flags
  /\ \E d \in dtype_options :
       opt_dtypes = d.list /\ opt_dtypes_by_name = d.by_name
  /\ range_offset \in offsets
  /\ range_size \in sizes
  /\ field_class \in classes
  /\ byte_range_offset_ = 0 /\ byte_range_size_ = 0 /\ load_whole_file_ = FALSE
  /\ buffer_ = <<>> /\ uncomp_data_ = <<>> /\ data_ = <<>>
  /\ rec_starts = <<>>
  /\ start_offset = 0
  /\ column_names = <<>>
  /\ key_to_col_idx_map_ = NullMap
  /\ dtypes_ = <<>>
  /\ h_column_infos = <<>>
  /\ result = NoTable
  /\ h_valid_counts = <<>>

\* the reader over one source and the byte ranges up to MaxOffset and MaxRange
InitReader(source_set, flags, codecs, dtype_options, classes) ==
  InitReaderOver({<<src>> : src \in source_set}, flags, codecs, dtype_options, classes,
                 0..MaxOffset, 0..MaxRange)

NoColumn == [type |-> "none", data |-> <<>>]
NoTypeQuery == q_cinfo = <<>> /\ q_records = <<>> /\ q_types = NoTypes
NoColumnQuery == q_raw = NoColumn /\ q_out = NoColumn
NoQuery == NoTypeQuery /\ NoColumnQuery

\* rmm::cuda_stream_default, the stream of the calls that name no stream
DefaultStream == "default"

\* no device work is followed: the stages run as if each piece of device work
\* were complete when the call that issues it returns
NoDeviceWork ==
  /\ stream = DefaultStream /\ stream_blocks = TRUE /\ rec_count = 0
  /\ host = 0 /\ pending = <<>> /\ completed = {} /\ issued = <<>>
  /\ unsynced = {} /\ observed = <<>> /\ raced = {}

\* reader::read is entered: the locals of the call are fresh
Read ==
  /\ pc \in {"idle", "done", "failed"}
  /\ calls < MaxCalls
  /\ calls' = calls + 1
  /\ pc' = "ingest"
  /\ trace' = <<>>
  /\ rec_starts' = <<>>
  /\ h_column_infos' = <<>>
  /\ result' = NoTable
  /\ h_valid_counts' = <<>>
  /\ UNCHANGED <<reader_vars, ingest_vars, uncomp_data_, data_, start_offset,
                 column_names, key_to_col_idx_map_, dtypes_, query_vars, device_vars>>

\* ingest_raw_input, then CUDF_EXPECTS(buffer_.size() != 0)
Ingest ==
  /\ pc = "ingest"
  /\ trace' = Append(trace, "ingest")
  /\ IF CanAllocate(TotalSourceSize(sources_, range_offset))
     THEN /\ buffer_' = IngestRawInput(sources_, range_offset, range_size,
                                          DtypeOptionSize(opt_dtypes, opt_dtypes_by_name))
          /\ byte_range_offset_' = range_offset
          /\ byte_range_size_' = range_size
          /\ load_whole_file_' = (range_offset = 0 /\ range_size = 0)
          /\ pc' = Expects(Len(buffer_') # 0, "ingest")
     ELSE /\ pc' = "failed"
          /\ UNCHANGED ingest_vars
  /\ UNCHANGED <<reader_vars, call_vars, uncomp_data_, data_, rec_starts, start_offset,
                 schema_vars, result, h_valid_counts, query_vars, device_vars>>

\* decompress_input, then the two CUDF_EXPECTS on uncomp_data_ and uncomp_size_
\* (uncomp_data_ is null only when the decompressed data is empty)
Decompress ==
  /\ pc = "decompress"
  /\ trace' = Append(trace, "decompress")
  /\ uncomp_data_' = DecompressInput(buffer_, compression_type)
  /\ data_' = IF load_whole_file_ THEN uncomp_data_' ELSE data_
  /\ pc' = Expects(Len(uncomp_data_') # 0, "decompress")
  /\ UNCHANGED <<reader_vars, call_vars, ingest_vars, rec_starts, start_offset,
                 schema_vars, result, h_valid_counts, query_vars, device_vars>>

\* find_record_starts, then CUDF_EXPECTS(!rec_starts.is_empty())
Locate ==
  /\ pc = "locate"
  /\ trace' = Append(trace, "locate")
  /\ LET scan == IF load_whole_file_ THEN data_ ELSE uncomp_data_
     IN  \E emit \in EmitOrders(NumFound(scan, allow_newlines_in_strings_)) :
           rec_starts' = FindRecordStarts(uncomp_data_, scan, byte_range_offset_,
                                          allow_newlines_in_strings_, emit)
  /\ pc' = Expects(rec_starts' # <<>>, "locate")
  /\ UNCHANGED <<reader_vars, call_vars, ingest_vars, uncomp_data_, data_, start_offset,
                 schema_vars, result, h_valid_counts, query_vars, device_vars>>

\* the outcome of front() in which the process is aborted; no size_t value
ABORT == 0 - 1

\* the outcomes of h_rec_starts.front() in upload_data_to_device
FrontOutcomes(h, uncomp_size, byte_range_offset, byte_range_size) ==
  IF byte_range_size # 0 \/ byte_range_offset # 0
  THEN LET kept == TrimToRange(h, uncomp_size, byte_range_size).h
       IN  IF kept = <<>> THEN FrontValues(kept, uncomp_size) \cup {ABORT}
           ELSE FrontValues(kept, uncomp_size)
  ELSE {0}

\* upload_data_to_device, then CUDF_EXPECTS(data_.size() != 0)
Stage ==
  /\ pc = "stage"
  /\ trace' = Append(trace, "stage")
  /\ \E front \in FrontOutcomes(rec_starts, Len(uncomp_data_),
                                byte_range_offset_, byte_range_size_) :
       IF front = ABORT
       THEN /\ pc' = "aborted"
            /\ UNCHANGED <<data_, rec_starts, start_offset>>
       ELSE LET u == UploadDataToDevice(rec_starts, uncomp_data_, byte_range_offset_,
                                        byte_range_size_, front)
            IN  /\ rec_starts' = u.rec_starts
                /\ start_offset' = u.start_offset
                /\ data_' = IF u.ok THEN u.data ELSE data_
                /\ pc' = IF u.ok THEN Expects(Len(u.data) # 0, "stage") ELSE "failed"
  /\ UNCHANGED <<reader_vars, call_vars, ingest_vars, uncomp_data_,
                 schema_vars, result, h_valid_counts, query_vars, device_vars>>

\* set_column_names, then CUDF_EXPECTS(!metadata_.column_names.empty())
Names ==
  /\ pc = "names"
  /\ trace' = Append(trace, "names")
  /\ LET first_row == FirstRow(data_, rec_starts)
     IN  IF ~IsValidJson(first_row)
         THEN /\ pc' = "failed"
              /\ UNCHANGED <<column_names, key_to_col_idx_map_>>
         ELSE /\ IF RowsAreObjects(first_row)
                 THEN \E fill \in Permutations(1..NumKeys(data_, rec_starts)) :
                        LET keys_desc == GetJsonObjectKeysHashes(uncomp_data_, data_,
                                                                 rec_starts, fill)
                        IN  /\ column_names' = keys_desc.names
                            /\ key_to_col_idx_map_' = keys_desc.map
                 ELSE /\ column_names' =
                           column_names \o ArrayColumnNames(first_row, 0, FALSE, 0)
                      /\ UNCHANGED key_to_col_idx_map_
              /\ pc' = Expects(column_names' # <<>>, "names")
  /\ UNCHANGED <<reader_vars, call_vars, ingest_vars, uncomp_data_, data_, rec_starts,
                 start_offset, dtypes_, h_column_infos, result, h_valid_counts, query_vars, device_vars>>

\* set_data_types, then CUDF_EXPECTS(!dtypes_.empty())
Types ==
  /\ pc = "types"
  /\ trace' = Append(trace, "types")
  /\ IF ~HasToInferColumnTypes(opt_dtypes, opt_dtypes_by_name)
     THEN /\ LET e == ExplicitTypes(opt_dtypes, opt_dtypes_by_name, column_names)
             IN  IF e.ok
                 THEN dtypes_' = e.dtypes /\ pc' = Expects(dtypes_' # <<>>, "types")
                 ELSE pc' = "failed" /\ UNCHANGED dtypes_
          /\ UNCHANGED h_column_infos
     ELSE IF Len(rec_starts) = 0
          THEN pc' = "failed" /\ UNCHANGED <<dtypes_, h_column_infos>>
          ELSE LET first_row == FirstRow(data_, rec_starts)
                   fields_per_row ==
                     IF RowsAreObjects(first_row) THEN Len(column_names)
                     ELSE Len(ArrayColumnNames(first_row, 0, FALSE, 0))
                   infos == DetectDataTypes(Len(rec_starts), Len(column_names),
                                            fields_per_row, field_class,
                                            ~key_to_col_idx_map_.is_null)
                   types == InferredTypes(infos, Len(rec_starts))
               IN  /\ h_column_infos' = infos
                   /\ dtypes_' = dtypes_ \o types
                   /\ pc' = IF Len(types) = Len(infos)
                            THEN Expects(dtypes_' # <<>>, "types")
                            ELSE "failed"
  /\ UNCHANGED <<reader_vars, call_vars, ingest_vars, uncomp_data_, data_, rec_starts,
                 start_offset, column_names, key_to_col_idx_map_, result, h_valid_counts, query_vars, device_vars>>

\* --------------------------------------------- 4.5 convert_data_to_table
BACKSLASH == "\\"
TAB == "TAB"
CR == "CR"
BS == "BS"

\* make_strings_column(chars, offsets): string i is chars[offsets[i], offsets[i+1])
StringsColumn(chars, offsets) ==
  [i \in 1..(Len(offsets) - 1) |-> Slice(chars, offsets[i], offsets[i + 1])]

target_chars == <<BACKSLASH, QUOTE, BACKSLASH, BACKSLASH, BACKSLASH, "t",
                  BACKSLASH, "r", BACKSLASH, "b">>
target_offsets == <<0, 2, 4, 6, 8, 10>>
repl_chars == <<QUOTE, BACKSLASH, TAB, CR, BS>>
repl_offsets == <<0, 1, 2, 3, 4, 5>>

\* the index of the first target that the characters start with, or 0
FirstTargetAt(chars, targets) ==
  LET hits == {k \in 1..Len(targets) : Len(targets[k]) > 0 /\ IsPrefix(targets[k], chars)}
  IN  IF hits = {} THEN 0 ELSE SetMin(hits)

\* cudf::strings::detail::replace(strings, targets, repls) on one string: at
\* each position from the left, the first target that matches there is
\* replaced by its replacement and the scan goes on after the match
RECURSIVE ReplaceMulti(_, _, _)
ReplaceMulti(chars, targets, repls) ==
  IF chars = <<>> THEN <<>>
  ELSE LET k == FirstTargetAt(chars, targets)
       IN  IF k = 0
           THEN <<Head(chars)>> \o ReplaceMulti(Tail(chars), targets, repls)
           ELSE repls[k] \o ReplaceMulti(SubSeq(chars, Len(targets[k]) + 1, Len(chars)),
                                         targets, repls)

\* the loop "postprocess columns": the null count of the buffer, and the
\* replacement in the columns of type STRING
PostprocessAnyColumn(buffer, num_records, valid_count) ==
  [type |-> buffer.type, size |-> buffer.size,
   null_count |-> num_records - valid_count,
   data |-> ReplaceMulti(buffer.data, StringsColumn(target_chars, target_offsets),
                         StringsColumn(repl_chars, repl_offsets))]
PostprocessColumn(buffer, num_records, valid_count) ==
  [type |-> buffer.type, size |-> buffer.size,
   null_count |-> num_records - valid_count,
   data |-> IF buffer.type = "STRING"
            THEN ReplaceMulti(buffer.data, StringsColumn(target_chars, target_offsets),
                              StringsColumn(repl_chars, repl_offsets))
            ELSE buffer.data]

\* convert_json_to_columns over num_columns buffers of num_records rows: what
\* it can leave behind, the count of valid values of each column and the
\* column's data (texts: the data a column can hold)
ConvertJsonToColumns(num_columns, num_records, texts) ==
  [1..num_columns -> [valid_count : 0..num_records, data : texts]]

\* convert_data_to_table: one output column per entry of dtypes_, one row per
\* record, with metadata_ as the table's metadata
ConvertDataToTableNullsAsValid(dtypes, names, num_records, converted) ==
  [columns |-> [i \in 1..Len(dtypes) |->
                  PostprocessColumn([type |-> dtypes[i], size |-> num_records,
                                     data |-> converted[i].data],
                                    converted[i].valid_count, 0)],
   column_names |-> names]
ConvertDataToTable(dtypes, names, num_records, converted) ==
  [columns |-> [i \in 1..Len(dtypes) |->
                  PostprocessColumn([type |-> dtypes[i], size |-> num_records,
                                     data |-> converted[i].data],
                                    num_records, converted[i].valid_count)],
   column_names |-> names]

\* the data of a column in the specifications of the whole reader
FieldTexts == {<<"a", BACKSLASH, QUOTE>>}

Materialize ==
  /\ pc = "materialize"
  /\ trace' = Append(trace, "materialize")
  /\ \E converted \in ConvertJsonToColumns(Len(dtypes_), Len(rec_starts), FieldTexts) :
       LET table == ConvertDataToTable(dtypes_, column_names, Len(rec_starts), converted)
       IN  /\ h_valid_counts' = [i \in 1..Len(dtypes_) |-> converted[i].valid_count]
           /\ pc' = Expects(table.columns # <<>>, "materialize")
           /\ result' = IF table.columns # <<>> THEN table ELSE NoTable
  /\ UNCHANGED <<reader_vars, call_vars, ingest_vars, uncomp_data_, data_, rec_starts,
                 start_offset, schema_vars, query_vars, device_vars>>

Next == Read \/ Ingest \/ Decompress \/ Locate \/ Stage \/ Names \/ Types \/ Materialize

\* the full reader over every source of at most MaxLen bytes
Init ==
  /\ InitReader(SeqsUpTo(Bytes, MaxLen), BOOLEAN, {"none", "gz"}, {InferTypes},
                Classes \cup {NoField})
  /\ NoQuery
  /\ NoDeviceWork

Spec == Init /\ [][Next]_vars

\* the reader over the sources that matter to the record locator and the stager
InitScan ==
  /\ InitReader(SeqsUpTo(ScanBytes, MaxScanLen), BOOLEAN, {"none"}, {InferTypes},
                {"string_count"})
  /\ NoQuery
  /\ NoDeviceWork

\* these sources hold no bracket, so every call ends in set_column_names
NextScan == Read \/ Ingest \/ Decompress \/ Locate \/ Stage \/ Names

SpecScan == InitScan /\ [][NextScan]_vars

\* the reader over object rows with up to three keys, two of which collide
KeyBytes == {CURLY, "a", "b", LF}

InitKeys ==
  /\ InitReader(SeqsUpTo(KeyBytes, MaxKeyLen), {FALSE}, {"none"}, {InferTypes},
                {"string_count"})
  /\ NoQuery
  /\ NoDeviceWork

SpecKeys == InitKeys /\ [][Next]_vars

\* set_data_types on its own: the std::transform applies get_type_id to the
\* counts of one column, here in two reads that differ in their record count
ResolveTypes ==
  /\ q_types = NoTypes
  /\ q_types' = [i \in 1..2 |-> InferredTypes(<<q_cinfo>>, q_records[i])]
  /\ UNCHANGED <<pc, trace, reader_vars, call_vars, ingest_vars, uncomp_data_, data_,
                 rec_starts, start_offset, schema_vars, result, h_valid_counts, q_cinfo,
                 q_records, q_raw, q_out, device_vars>>

\* every count vector of a column of a read of at most MaxRecords records (a
\* record adds at most one occurrence to a column), and two such reads
InitTypes ==
  /\ InitReader({<<CURLY, "a">>}, {FALSE}, {"none"}, {InferTypes}, {"string_count"})
  /\ range_offset = 0 /\ range_size = 0
  /\ is_enabled_lines
  /\ q_cinfo \in Histograms(MaxRecords)
  /\ q_records \in [1..2 -> {n \in 1..MaxRecords : HistTotal(q_cinfo) <= n}]
  /\ q_types = NoTypes
  /\ NoColumnQuery
  /\ NoDeviceWork

NextTypes == ResolveTypes

SpecTypes == InitTypes /\ [][NextTypes]_vars

\* the reader given explicit types: every list of one or two types, and every
\* map that names some of the columns "0", "1" and "a"
TypedBytes == {SQUARE, CURLY, DELIM, "a"}
TypeNamed(name) ==
  IF name = <<"0">> THEN "INT8" ELSE IF name = <<"1">> THEN "STRING" ELSE "BOOL8"
TypeLists == {TypeList(l) : l \in SeqsUpTo({"INT8", "STRING"}, 2) \ {<<>>}}
TypeMaps ==
  {TypeMap([name \in D |-> TypeNamed(name)]) :
     D \in (SUBSET {<<"0">>, <<"1">>, <<"a">>}) \ {{}}}

InitTyped ==
  /\ InitReader(SeqsUpTo(TypedBytes, MaxTypedLen), {FALSE}, {"none"},
                TypeLists \cup TypeMaps, {"string_count"})
  /\ range_offset = 0 /\ range_size = 0
  /\ NoQuery
  /\ NoDeviceWork

SpecTyped == InitTyped /\ [][Next]_vars

\* the reader over rows of brackets, delimiters and quotes
RowBytes == {SQUARE, CURLY, DELIM, QUOTE, LF}

InitSchema ==
  /\ InitReader(SeqsUpTo(RowBytes, MaxRowLen), {FALSE}, {"none"}, {InferTypes},
                {"string_count"})
  /\ NoQuery
  /\ NoDeviceWork

SpecSchema == InitSchema /\ [][Next]_vars

\* convert_data_to_table on its own: one converted column of one record goes
\* through the loop "postprocess columns"
Postprocess ==
  /\ q_out = NoColumn
  /\ q_out' = ConvertDataToTable(<<q_raw.type>>, <<to_string(0)>>, 1,
                                 <<[valid_count |-> 1, data |-> q_raw.data]>>).columns[1]
  /\ UNCHANGED <<pc, trace, reader_vars, call_vars, ingest_vars, uncomp_data_, data_,
                 rec_starts, start_offset, schema_vars, result, h_valid_counts, q_cinfo,
                 q_records, q_types, q_raw, device_vars>>

\* every column data of at most MaxEscLen bytes, in a string column and in
\* a column of another type
EscapeBytes == {BACKSLASH, QUOTE, "t", "r", "b", "n"}

InitEscape ==
  /\ InitReader({<<CURLY, "a">>}, {FALSE}, {"none"}, {InferTypes}, {"string_count"})
  /\ range_offset = 0 /\ range_size = 0
  /\ is_enabled_lines
  /\ NoTypeQuery
  /\ NoDeviceWork
  /\ q_raw \in [type : {"STRING", "INT64"}, data : SeqsUpTo(EscapeBytes, MaxEscLen)]
  /\ q_out = NoColumn

NextEscape == Postprocess

SpecEscape == InitEscape /\ [][NextEscape]_vars

\* the reader with quote-aware splitting, over sources of terminators, quotes
\* and backslashes, read from the start
QuoteBytes == {LF, QUOTE, BACKSLASH}

InitQuote ==
  /\ InitReader(SeqsUpTo(QuoteBytes, MaxQuoteLen), {TRUE}, {"none"}, {InferTypes},
                {"string_count"})
  /\ range_offset = 0
  /\ NoQuery
  /\ NoDeviceWork

SpecQuote == InitQuote /\ [][NextScan]_vars

\* the reader over one uncompressed source of array rows, given the k-th
\* window of size S: byte_range_offset k * S and byte_range_size S
WindowBytes == {SQUARE, LF}

InitWindows ==
  /\ InitReaderOver({<<src>> : src \in SeqsUpTo(WindowBytes, MaxWindowLen)}, {FALSE},
                    {"none"}, {InferTypes}, {"string_count"},
                    0..(MaxWindowLen + 1), 1..MaxWindow)
  /\ range_offset % range_size = 0
  /\ NoQuery
  /\ NoDeviceWork

SpecWindows == InitWindows /\ [][Next]_vars

\* the reader over one source or several, as far as ingest_raw_input
IngestBytes == {"a", LF}

InitIngest ==
  /\ InitReaderOver(SeqsUpTo(SeqsUpTo(IngestBytes, MaxIngestLen), MaxSources) \ {<<>>},
                    {FALSE}, {"none"}, {InferTypes}, {"string_count"},
                    0..MaxOffset, 0..MaxRange)
  /\ NoQuery
  /\ NoDeviceWork

NextIngest == Read \/ Ingest

SpecIngest == InitIngest /\ [][NextIngest]_vars

\* ------------------------------------- device work and the stream it is on
\* a stream the caller created and passed to the call
SideStream == "side"

ToStream == "stream"      \* the piece of work is issued to the stream argument
ToDefault == "no stream"  \* the call that issues it is given no stream

Issues(op, to) == [kind |-> "issue", op |-> op, to |-> to]
Synchronizes == [kind |-> "synchronize", op |-> "none", to |-> ToStream]
Reads(op) == [kind |-> "read", op |-> op, to |-> ToStream]

\* set_column_names on object rows, and get_json_object_keys_hashes under it:
\* what the host thread does, in program order, over `records` record starts
Program(records) ==
  (IF records > 1
   THEN <<Issues("copy_first_row_len", ToStream),  \* cudaMemcpyAsync(&first_row_len, ...)
          Reads("copy_first_row_len")>>            \* std::vector<char> first_row(first_row_len)
   ELSE <<>>)
  \o <<Issues("copy_first_row", ToStream),         \* cudaMemcpyAsync(first_row.data(), ...)
       Synchronizes,                               \* stream.synchronize()
       Reads("copy_first_row"),                    \* std::find(first_row.begin(), ...)
       Issues("count_keys", ToStream),             \* collect_keys_info, counting
       Synchronizes,                               \* key_counter.value(stream)
       Reads("count_keys"),
       Issues("reset_key_counter", ToStream),      \* key_counter.set_value_to_zero_async
       Issues("fill_keys", ToStream),              \* collect_keys_info, filling
       Issues("aggregate", ToDefault),             \* gb_obj.aggregate(requests)
       Issues("sort", ToDefault),                  \* sort_by_key(info->view(), ...)
       Issues("copy_offsets", ToStream),           \* cudaMemcpyAsync(h_offsets.data(), ...)
       Issues("copy_lens", ToStream),              \* cudaMemcpyAsync(h_lens.data(), ...)
       Reads("copy_offsets"),                      \* std::transform(h_offsets.cbegin(), ...
       Reads("copy_lens"),                         \*                h_lens.cbegin(), ...)
       Issues("insert_keys", ToStream)>>           \* thrust::for_each_n(... map.insert ...)

\* the work whose result a piece of device work consumes
Inputs(op) ==
  CASE op = "fill_keys" -> {"reset_key_counter"}
    [] op = "aggregate" -> {"fill_keys"}
    [] op = "sort" -> {"aggregate"}
    [] op \in {"copy_offsets", "copy_lens", "insert_keys"} -> {"sort"}
    [] OTHER -> {}

\* the stream a piece of work is issued to: a call given no stream runs on
\* the default stream
IssuedTo(to, stream_argument) == IF to = ToStream THEN stream_argument ELSE DefaultStream

Statement == Program(rec_count)[host]
InProgram == host \in 1..Len(Program(rec_count))

\* the host thread issues a piece of device work and goes on
Issue ==
  /\ InProgram /\ Statement.kind = "issue"
  /\ LET work == [op |-> Statement.op, on |-> IssuedTo(Statement.to, stream)]
     IN  /\ pending' = Append(pending, work)
         /\ issued' = Append(issued, work)
         /\ unsynced' = IF work.on = stream THEN unsynced \cup {work.op} ELSE unsynced
  /\ host' = host + 1
  /\ UNCHANGED <<pc, trace, reader_vars, call_vars, ingest_vars, uncomp_data_, data_,
                 rec_starts, start_offset, schema_vars, result, h_valid_counts, query_vars,
                 stream, stream_blocks, rec_count, completed, observed, raced>>

\* stream.synchronize(): the host thread waits until the work on `stream` is complete
Synchronize ==
  /\ InProgram /\ Statement.kind = "synchronize"
  /\ \A i \in 1..Len(pending) : pending[i].on # stream
  /\ unsynced' = {}
  /\ host' = host + 1
  /\ UNCHANGED <<pc, trace, reader_vars, call_vars, ingest_vars, uncomp_data_, data_,
                 rec_starts, start_offset, schema_vars, result, h_valid_counts, query_vars,
                 stream, stream_blocks, rec_count, pending, completed, issued, observed,
                 raced>>

\* the host thread reads the destination of an asynchronous copy (or the
\* result of a kernel): whether the copy was complete by then, and whether the
\* stream had been synchronized since the copy was issued
HostUses ==
  /\ InProgram /\ Statement.kind = "read"
  /\ observed' = Append(observed, [value |-> Statement.op,
                                   complete |-> Statement.op \in completed,
                                   synced |-> Statement.op \notin unsynced])
  /\ host' = host + 1
  /\ UNCHANGED <<pc, trace, reader_vars, call_vars, ingest_vars, uncomp_data_, data_,
                 rec_starts, start_offset, schema_vars, result, h_valid_counts, query_vars,
                 stream, stream_blocks, rec_count, pending, completed, issued, unsynced,
                 raced>>

\* the work at index i may run: work on one stream runs in issue order, and
\* work on the default stream and on a stream that blocks do not overtake
\* each other
MayRun(i) ==
  \A j \in 1..(i - 1) : pending[j].on # pending[i].on /\ ~stream_blocks

\* the device completes a piece of work
Execute ==
  /\ \E i \in 1..Len(pending) :
       /\ MayRun(i)
       /\ completed' = completed \cup {pending[i].op}
       /\ raced' = IF Inputs(pending[i].op) \subseteq completed THEN raced
                   ELSE raced \cup {pending[i].op}
       /\ pending' = SubSeq(pending, 1, i - 1) \o SubSeq(pending, i + 1, Len(pending))
  /\ UNCHANGED <<pc, trace, reader_vars, call_vars, ingest_vars, uncomp_data_, data_,
                 rec_starts, start_offset, schema_vars, result, h_valid_counts, query_vars,
                 stream, stream_blocks, rec_count, host, issued, unsynced, observed>>

\* schema discovery on object rows, on the default stream or on a stream of
\* the caller's, over one record or two
InitStreams ==
  /\ InitReader({<<CURLY, "a">>}, {FALSE}, {"none"}, {InferTypes}, {"string_count"})
  /\ range_offset = 0 /\ range_size = 0
  /\ is_enabled_lines
  /\ NoTypeQuery /\ q_raw = NoColumn /\ q_out = NoColumn
  /\ stream \in {DefaultStream, SideStream}
  /\ stream_blocks \in BOOLEAN
  /\ rec_count \in 1..2
  /\ host = 1
  /\ pending = <<>> /\ completed = {} /\ issued = <<>>
  /\ unsynced = {} /\ observed = <<>> /\ raced = {}

NextStreams == Issue \/ Synchronize \/ HostUses \/ Execute

SpecStreams == InitStreams /\ [][NextStreams]_vars

\* ================================================================ claims
StageNames == Range(Stages)

\* the call has run exactly the stages up to and including `stage`
JustRan(stage) == trace # <<>> /\ trace[Len(trace)] = stage

\* C1: within a read call the stages run once each in the order Ingest,
\* Decompress, Locate-Boundaries, Stage, Discover-Schema, Infer-Types,
\* Materialize: the stages run so far are a prefix of that order, the call is
\* about to run the next one or has ended, it is Done only after all seven,
\* and once it has Failed no stage can run (none is retried or re-entered).
C1_StagesRunOnceInOrder ==
  /\ IsPrefix(trace, Stages)
  /\ pc \in StageNames => Len(trace) < Len(Stages) /\ pc = Stages[Len(trace) + 1]
  /\ pc = "done" => trace = Stages
  /\ pc \in {"failed", "aborted"} =>
       /\ trace # <<>>
       /\ ~ENABLED (Ingest \/ Decompress \/ Locate \/ Stage \/ Names \/ Types \/ Materialize)

\* a second call reaches Done after all seven stages, the first one having failed or not
C1_Witness == pc = "done" /\ calls = 2 /\ trace = Stages

\* C2: a read call returns a table only if each check of read() held when it
\* was made: a call gets past a stage only with that stage's product
\* non-empty, a table exists only in Done, and it has at least one column.
C2_TableOnlyIfEveryCheckHeld ==
  /\ result # NoTable <=> pc = "done"
  /\ pc \in {"decompress", "locate", "stage", "names", "types", "materialize", "done"}
       => buffer_ # <<>>
  /\ pc \in {"locate", "stage", "names", "types", "materialize", "done"}
       => uncomp_data_ # <<>>
  /\ pc = "stage" => rec_starts # <<>>
  /\ pc \in {"names", "types", "materialize", "done"} => data_ # <<>>
  /\ pc \in {"types", "materialize", "done"} => column_names # <<>>
  /\ pc \in {"materialize", "done"} => dtypes_ # <<>>
  /\ pc = "done" => result.columns # <<>>

C2_Witness == pc = "done" /\ result # NoTable /\ Len(result.columns) = 1

\* the identity order of n stored rows
InOrder(n) == [i \in 1..n |-> i]

\* what a newly constructed reader finds in the staged data of this call
FreshColumnNames ==
  LET first_row == FirstRow(data_, rec_starts)
  IN  IF RowsAreObjects(first_row)
      THEN GetJsonObjectKeysHashes(uncomp_data_, data_, rec_starts,
                                   InOrder(NumKeys(data_, rec_starts))).names
      ELSE ArrayColumnNames(first_row, 0, FALSE, 0)

FreshTypes ==
  LET first_row == FirstRow(data_, rec_starts)
  IN  InferredTypes(DetectDataTypes(Len(rec_starts), Len(FreshColumnNames),
                                    Len(FreshColumnNames), field_class,
                                    RowsAreObjects(first_row)),
                    Len(rec_starts))

\* C3: the reader keeps no state from one read call to the next: in every
\* call the column names after schema discovery, the types after type
\* inference and the columns of the returned table are those a newly
\* constructed reader gets from the same input and options.
C3_NoStateAcrossCalls ==
  /\ pc \in {"types", "materialize", "done"} => column_names = FreshColumnNames
  /\ pc \in {"materialize", "done"} => dtypes_ = FreshTypes
  /\ pc = "done" =>
       /\ Len(result.columns) = Len(FreshColumnNames)
       /\ result.column_names = FreshColumnNames

\* C3 for the first call on a reader alone
C3_FirstCall == calls = 1 => C3_NoStateAcrossCalls

\* C3 for object rows alone
C3_ObjectRows == RowsAreObjects(FirstRow(data_, rec_starts)) => C3_NoStateAcrossCalls

\* -------------------------------------------- record boundaries (C4 - C7)
\* the number of quote bytes in buf[0, p)
RECURSIVE QuotesBefore(_, _)
QuotesBefore(buf, p) ==
  IF p <= 0 THEN 0
  ELSE QuotesBefore(buf, p - 1) + (IF ByteAt(buf, p - 1) = QUOTE THEN 1 ELSE 0)

\* the terminator at offset p of buf lies inside a quoted span
InsideQuotes(buf, p) == QuotesBefore(buf, p) % 2 = 1

\* the offsets at which a record of the window starts: offset 0 when the
\* window begins at the start of the input, and each offset after a terminator
\* (outside every quoted span, when quote_aware) that is followed by a byte
IsRecordStart(buf, p, byte_range_offset, quote_aware) ==
  \/ p = 0 /\ byte_range_offset = 0
  \/ /\ p >= 1 /\ p < Len(buf)
     /\ ByteAt(buf, p - 1) = LF
     /\ ~(quote_aware /\ InsideQuotes(buf, p - 1))

RECURSIVE RecordStartsFrom(_, _, _, _)
RecordStartsFrom(buf, p, byte_range_offset, quote_aware) ==
  IF p >= Len(buf) THEN <<>>
  ELSE (IF IsRecordStart(buf, p, byte_range_offset, quote_aware) THEN <<p>> ELSE <<>>)
       \o RecordStartsFrom(buf, p + 1, byte_range_offset, quote_aware)

LogicalRecordStarts(buf, byte_range_offset, quote_aware) ==
  RecordStartsFrom(buf, 0, byte_range_offset, quote_aware)

\* the source is well-formed as far as quoting goes: the quotes of the window
\* pair up, and no quote precedes the window
WellQuoted ==
  /\ QuotesBefore(uncomp_data_, Len(uncomp_data_)) % 2 = 0
  /\ QuotesBefore(Concat(sources_), byte_range_offset_) = 0

\* find_record_starts has returned and nothing has touched its table yet
Located == Len(trace) = 3 /\ trace[3] = "locate"

\* C4: the table find_record_starts returns is strictly increasing, has one
\* entry per record, and holds offset 0 iff byte_range_offset = 0, with
\* quote-aware splitting on or off.  Stated for well-quoted sources.
C4_RecordStartTableInvariant ==
  (Located /\ WellQuoted) =>
    /\ StrictlyIncreasing(rec_starts)
    /\ Len(rec_starts) = Len(LogicalRecordStarts(uncomp_data_, byte_range_offset_,
                                                 allow_newlines_in_strings_))
    /\ (0 \in Range(rec_starts)) <=> (byte_range_offset_ = 0)

\* C4 with quote-aware splitting off
C4_QuotesOff == allow_newlines_in_strings_ \/ C4_RecordStartTableInvariant

\* C4 for a window at the start of the input
C4_FromStart == byte_range_offset_ = 0 => C4_RecordStartTableInvariant

\* C5: with quote-aware splitting the retained record starts are exactly the
\* positions after the terminators outside every quoted span, so a '\n'
\* inside quotes makes no boundary.  Stated for well-quoted sources.
C5_NoBoundaryInsideQuotes ==
  (Located /\ WellQuoted /\ allow_newlines_in_strings_) =>
    rec_starts = LogicalRecordStarts(uncomp_data_, byte_range_offset_, TRUE)

\* C5 for a window at the start of the input
C5_FromStart == byte_range_offset_ = 0 => C5_NoBoundaryInsideQuotes

\* C6: the table does not depend on the order in which the scan emits the
\* positions (it is the table of the in-order emission), and its length is the
\* number of records of the window.  Stated for well-quoted sources.
C6_EmitOrderIndependent ==
  (Located /\ WellQuoted) =>
    /\ rec_starts =
         LET scan == IF load_whole_file_ THEN data_ ELSE uncomp_data_
         IN  FindRecordStarts(uncomp_data_, scan, byte_range_offset_,
                              allow_newlines_in_strings_,
                              InOrder(NumFound(scan, allow_newlines_in_strings_)))
    /\ Len(rec_starts) = Len(LogicalRecordStarts(uncomp_data_, byte_range_offset_,
                                                 allow_newlines_in_strings_))

\* the order-independence of C6 alone, for every source
C6_SameTableForEveryOrder ==
  Located =>
    rec_starts =
      LET scan == IF load_whole_file_ THEN data_ ELSE uncomp_data_
      IN  FindRecordStarts(uncomp_data_, scan, byte_range_offset_,
                           allow_newlines_in_strings_,
                           InOrder(NumFound(scan, allow_newlines_in_strings_)))

\* the table find_record_starts returned to this call
LocatedTable ==
  FindRecordStarts(uncomp_data_, uncomp_data_, byte_range_offset_,
                   allow_newlines_in_strings_,
                   InOrder(NumFound(uncomp_data_, allow_newlines_in_strings_)))

InRange(entry) == byte_range_size_ = 0 \/ entry <= byte_range_size_

\* the entries of the located table that the byte range retains, and the
\* offset at which the retained records end
Retained == SelectSeq(LocatedTable, InRange)

Dropped == {LocatedTable[i] : i \in 1..Len(LocatedTable)} \ Range(Retained)

RetainedEnd == IF Dropped = {} THEN Len(uncomp_data_) ELSE SetMin(Dropped)

ByteRangeSet == byte_range_size_ # 0 \/ byte_range_offset_ # 0

\* upload_data_to_device has run in this call (its CUDF_EXPECTS may have thrown)
Staged == Len(trace) = 4 /\ trace[4] = "stage"

\* C7: with a byte range set the stager retains exactly the entries that do
\* not exceed byte_range_size (all of them when it is 0), start_offset is the
\* first retained entry and the staged table is the retained entries less
\* start_offset, so it starts at 0; the upload is host bytes
\* [start_offset, end_offset), end_offset the smallest dropped entry or the
\* buffer size; every staged offset is below the uploaded length.  Stated for
\* well-quoted sources.
C7_StagerKeepsWindow ==
  (Staged /\ ByteRangeSet /\ WellQuoted) =>
    /\ pc # "aborted"
    /\ Retained # <<>>
    /\ start_offset = Retained[1]
    /\ rec_starts = [i \in 1..Len(Retained) |-> Retained[i] - Retained[1]]
    /\ rec_starts[1] = 0
    /\ data_ = Slice(uncomp_data_, start_offset, RetainedEnd)
    /\ \A i \in 1..Len(rec_starts) : rec_starts[i] < Len(data_)

\* C7 for the calls in which the byte range retains at least one entry
C7_WhenSomethingIsRetained == Retained # <<>> => C7_StagerKeepsWindow

\* ---- C8
\* set_column_names has just run on object rows
ObjectsDiscovered ==
  /\ JustRan("names")
  /\ IsValidJson(FirstRow(data_, rec_starts))
  /\ RowsAreObjects(FirstRow(data_, rec_starts))

\* the key occurrences of the staged data, and the hashes among them
Occurrences == CollectKeysInfo(data_, rec_starts, 1)
OccurringHashes == {Occurrences[i].hash : i \in 1..Len(Occurrences)}

\* the offset in the staged data at which a key of hash h first occurs
FirstOccurrence(h) ==
  SetMin({Occurrences[i].offset : i \in {j \in 1..Len(Occurrences) : Occurrences[j].hash = h}})

HarvestOrders == Permutations(1..Len(Occurrences))

\* the hash of column idx (0-based) according to the column map
ColumnHashes(idx) == {e[1] : e \in {x \in key_to_col_idx_map_.entries : x[2] = idx}}

\* C8: for object rows there is one column per key hash of the staged data,
\* the columns are in ascending order of the first occurrence of their hash,
\* and whatever the order in which the parallel pass harvested the key
\* occurrences (and on every read call over the same bytes) discovery yields
\* the same ordered name list and the same column map.
C8_ColumnOrderIsFirstOccurrence ==
  ObjectsDiscovered =>
    /\ Len(column_names) = Cardinality(OccurringHashes)
    /\ \A idx \in 0..(Len(column_names) - 1) :
         /\ Cardinality(ColumnHashes(idx)) = 1
         /\ ColumnHashes(idx) \subseteq OccurringHashes
    /\ \A i, j \in 0..(Len(column_names) - 1) :
         i < j => \A h \in ColumnHashes(i), g \in ColumnHashes(j) :
                    FirstOccurrence(h) < FirstOccurrence(g)
    /\ \A fill \in HarvestOrders :
         LET again == GetJsonObjectKeysHashes(uncomp_data_, data_, rec_starts, fill)
         IN  again.names = column_names /\ again.map = key_to_col_idx_map_

\* a second call over two or more keys, for which some harvest order hands
\* the groups to the sort in an order other than that of their offsets
C8_Witness ==
  /\ ObjectsDiscovered
  /\ calls = 2
  /\ Len(column_names) >= 2
  /\ \E fill \in HarvestOrders :
       LET groups == AggregateKeysInfo(CreateJsonKeysInfoTable(data_, rec_starts, fill))
       IN  groups # SortKeysInfoByOffset(groups)

\* ---- C9
\* the nine rules, as (condition, result) in their order
RuleHolds(k, c, n) ==
  LET integers == c.positive_small_int_count + c.negative_small_int_count + c.big_int_count
  IN  CASE k = 1 -> c.null_count = n
        [] k = 2 -> c.string_count > 0
        [] k = 3 -> c.datetime_count > 0
        [] k = 4 -> c.float_count > 0 \/ (integers > 0 /\ c.null_count > 0)
        [] k = 5 -> integers > 0 /\ c.big_int_count = 0
        [] k = 6 -> c.big_int_count > 0 /\ c.negative_small_int_count > 0
        [] k = 7 -> c.big_int_count > 0
        [] k = 8 -> c.bool_count > 0
        [] k = 9 -> TRUE

RuleResult(k) ==
  CASE k = 1 -> <<"INT8">>
    [] k = 2 -> <<"STRING">>
    [] k = 3 -> <<"TIMESTAMP_MILLISECONDS">>
    [] k = 4 -> <<"FLOAT64">>
    [] k = 5 -> <<"INT64">>
    [] k = 6 -> <<"STRING">>
    [] k = 7 -> <<"UINT64">>
    [] k = 8 -> <<"BOOL8">>
    [] k = 9 -> <<>>

FirstMatchingRule(c, n) == SetMin({k \in 1..9 : RuleHolds(k, c, n)})

Resolved == q_types # NoTypes

\* C9: with no explicit types the type resolved for a column is the result of
\* the first rule that matches its counts, in the order 1 (null count equals
\* record count: INT8), 2 (string: STRING), 3 (datetime:
\* TIMESTAMP_MILLISECONDS), 4 (float, or integer with null: FLOAT64), 5
\* (integers, none overflowing: INT64), 6 (overflowing with negative small:
\* STRING), 7 (overflowing: UINT64), 8 (boolean: BOOL8), 9 (failure, no type
\* appended); rule 6 wins over rule 7.
C9_FirstMatchingRule ==
  Resolved =>
    \A i \in 1..2 : q_types[i] = RuleResult(FirstMatchingRule(q_cinfo, q_records[i]))

\* rules 6 and 7 both match and rule 6 decides
C9_Witness ==
  /\ Resolved
  /\ RuleHolds(6, q_cinfo, q_records[1]) /\ RuleHolds(7, q_cinfo, q_records[1])
  /\ FirstMatchingRule(q_cinfo, q_records[1]) = 6
  /\ q_types[1] = <<"STRING">>

AllNull(i) == q_cinfo.null_count = q_records[i]

TypesSupplied == ~HasToInferColumnTypes(opt_dtypes, opt_dtypes_by_name)

FirstRecord ==
  Slice(data_, rec_starts[1], IF Len(rec_starts) > 1 THEN rec_starts[2] ELSE Len(data_))

Positions(row, c) == {i \in 1..Len(row) : row[i] = c}

\* the first '{' of the row comes before its first '[', or there is no '['
CurlyFirst(row) ==
  /\ Positions(row, CURLY) # {}
  /\ \A s \in Positions(row, SQUARE) : \E c \in Positions(row, CURLY) : c < s

NamesRan == JustRan("names") /\ rec_starts # <<>>

\* C12: the row format is decided by the first record alone: without '{' and
\* '[' in it the read fails in set_column_names and discovers nothing;
\* otherwise the object form (the key map is set) is chosen exactly when the
\* first '{' comes before the first '[' or there is no '[', and the array
\* form (no key map) in every other case.
C12_FormatFromFirstRecord ==
  NamesRan =>
    IF Positions(FirstRecord, CURLY) = {} /\ Positions(FirstRecord, SQUARE) = {}
    THEN pc = "failed" /\ column_names = <<>> /\ key_to_col_idx_map_.is_null
    ELSE key_to_col_idx_map_.is_null <=> ~CurlyFirst(FirstRecord)

\* array form chosen for a first record that holds a '{' after its '[',
\* with a second record in the data
C12_Witness ==
  /\ NamesRan /\ pc = "types"
  /\ key_to_col_idx_map_.is_null
  /\ Positions(FirstRecord, CURLY) # {}
  /\ Len(rec_starts) >= 2

\* ---- C13
\* set_column_names has just run and chose the array form
ArrayDiscovered ==
  /\ NamesRan
  /\ Positions(FirstRecord, CURLY) \cup Positions(FirstRecord, SQUARE) # {}
  /\ ~CurlyFirst(FirstRecord)

\* position i of the row is outside quotes: an even number of quote
\* characters precedes it
OutsideQuotes(row, i) == Cardinality({j \in Positions(row, QUOTE) : j < i}) % 2 = 0

\* the positions of the row at which the claim has a name emitted
NamePositions(row) ==
  {i \in 1..Len(row) : (row[i] = DELIM /\ OutsideQuotes(row, i)) \/ i = Len(row)}

Ordinals(n) == [i \in 1..n |-> to_string(i - 1)]

LastByteIsQuote(row) == row # <<>> /\ row[Len(row)] = QUOTE

\* C13: for array rows the column names are "0", "1", ..., "n-1" in order,
\* one for every position of the first record that is the delimiter outside
\* quotes or the last byte of the row (here for rows that do not end in a
\* quote character, as every well-formed row does).
C13_ArrayColumnNames ==
  (ArrayDiscovered /\ ~LastByteIsQuote(FirstRecord)) =>
    column_names = Ordinals(Cardinality(NamePositions(FirstRecord)))

\* C13 on the first read call of a reader
C13_FirstCall == calls = 1 => C13_ArrayColumnNames

\* C13 word for word on the first read call, rows that end in a quote
\* character included
C13_FirstCallAnyRow ==
  (ArrayDiscovered /\ calls = 1) =>
    column_names = Ordinals(Cardinality(NamePositions(FirstRecord)))

\* ---- C14
\* the first occurrence in the staged data of a key of hash h
FirstOccurrenceOf(h) ==
  CHOOSE i \in 1..Len(Occurrences) :
    Occurrences[i].hash = h /\ Occurrences[i].offset = FirstOccurrence(h)

\* the key text of an occurrence
KeyText(i) ==
  Slice(data_, Occurrences[i].offset, Occurrences[i].offset + Occurrences[i].len)

\* one column per hash, named by the key text of the first occurrence of the hash
NamedByFirstOccurrence ==
  /\ Len(column_names) = Cardinality(OccurringHashes)
  /\ \A idx \in 0..(Len(column_names) - 1) :
       \A h \in ColumnHashes(idx) : column_names[idx + 1] = KeyText(FirstOccurrenceOf(h))

\* C14: key occurrences are grouped by hash alone, one column per hash; the
\* group keeps its minimum offset and the length of that minimum-offset
\* occurrence, so the column is named by the key text of the first occurrence
\* of its hash (here for reads of the whole file, where the staged data is
\* the host data).
C14_GroupsKeepFirstOccurrence ==
  (ObjectsDiscovered /\ load_whole_file_) => NamedByFirstOccurrence

\* the occurrences of every hash have one length
OneLengthPerHash ==
  \A i, j \in 1..Len(Occurrences) :
    Occurrences[i].hash = Occurrences[j].hash => Occurrences[i].len = Occurrences[j].len

\* C14 for the reads in which no two keys of different length share a hash
C14_WithoutCollisionOfLengths ==
  (ObjectsDiscovered /\ load_whole_file_ /\ OneLengthPerHash) => NamedByFirstOccurrence

\* ---- C15
\* C15: every column of a returned table has one row per retained record,
\* and its null count is the record count minus the count of valid values of
\* the conversion pass for that column; so 0 <= null count <= record count.
C15_RowsAndNullCounts ==
  pc = "done" =>
    \A i \in 1..Len(result.columns) :
      /\ result.columns[i].size = Len(rec_starts)
      /\ result.columns[i].null_count = Len(rec_starts) - h_valid_counts[i]
      /\ 0 <= result.columns[i].null_count
      /\ result.columns[i].null_count <= Len(rec_starts)

\* a table of two records with one null in a column
C15_Witness ==
  /\ pc = "done"
  /\ Len(rec_starts) = 2
  /\ \E i \in 1..Len(result.columns) :
       result.columns[i].null_count = 1 /\ h_valid_counts[i] = 1

\* ---- C16
\* the decoding the claim describes: from the left, a backslash followed by
\* a quote, backslash, t, r or b becomes the one byte it stands for, and the
\* scan goes on after the pair; every other byte is copied
Unescaped(c) ==
  CASE c = QUOTE -> QUOTE [] c = BACKSLASH -> BACKSLASH
    [] c = "t" -> TAB [] c = "r" -> CR [] c = "b" -> BS

RECURSIVE Decode(_)
Decode(chars) ==
  IF chars = <<>> THEN <<>>
  ELSE IF /\ Len(chars) >= 2
          /\ chars[1] = BACKSLASH
          /\ chars[2] \in {QUOTE, BACKSLASH, "t", "r", "b"}
       THEN <<Unescaped(chars[2])>> \o Decode(SubSeq(chars, 3, Len(chars)))
       ELSE <<chars[1]>> \o Decode(Tail(chars))

Postprocessed == q_out # NoColumn

\* C16: a string column's data after post-processing is the left-to-right,
\* non-overlapping decoding of the five two-byte sequences, whatever the
\* order in which the five targets are listed, with every other byte left
\* as it was; a column of another type is not modified.
C16_EscapesDecoded ==
  Postprocessed =>
    IF q_raw.type = "STRING"
    THEN /\ q_out.data = Decode(q_raw.data)
         /\ \A order \in Permutations(1..5) :
              ReplaceMulti(q_raw.data,
                           Permuted(StringsColumn(target_chars, target_offsets), order),
                           Permuted(StringsColumn(repl_chars, repl_offsets), order))
                = q_out.data
    ELSE q_out.data = q_raw.data

\* an escaped quote and an escaped backslash decode to a quote and a backslash
C16_Witness ==
  /\ Postprocessed
  /\ q_raw = [type |-> "STRING", data |-> <<BACKSLASH, QUOTE, BACKSLASH, BACKSLASH>>]
  /\ q_out.data = <<QUOTE, BACKSLASH>>

\* ---- C17
NoTerminator == Positions(uncomp_data_, LF) = {}

NoQuoteFound == ~allow_newlines_in_strings_ \/ Positions(uncomp_data_, QUOTE) = {}

BeforeExclusion ==
  LET scan == IF load_whole_file_ THEN data_ ELSE uncomp_data_
      passed == FilteredRecordStarts(uncomp_data_, scan, byte_range_offset_,
                                     allow_newlines_in_strings_,
                                     InOrder(NumFound(scan, allow_newlines_in_strings_)))
  IN  SubSeq(passed.h, 1, passed.filtered_count)

EndsInTerminator == uncomp_data_[Len(uncomp_data_)] = LF

\* C18: when the buffer ends in a terminator the locator drops exactly one
\* entry, the one equal to the buffer size, never the start of a record;
\* otherwise it drops nothing; with quote-aware splitting on or off.
C18_DropsOnlyTheEndOfData ==
  Located =>
    IF EndsInTerminator
    THEN BeforeExclusion = rec_starts \o <<Len(uncomp_data_)>>
    ELSE BeforeExclusion = rec_starts

\* C18 with quote-aware splitting off
C18_QuotesOff == allow_newlines_in_strings_ \/ C18_DropsOnlyTheEndOfData

\* C18 for a well-quoted source read from the start
C18_FromStartWellQuoted ==
  (byte_range_offset_ = 0 /\ WellQuoted) => C18_DropsOnlyTheEndOfData

\* ---- C19
\* end_offset - start_offset of the stager, in unsigned arithmetic, exceeds
\* the decompressed size: end_offset never does, so the start lies beyond it
SpanExceedsFrom(start) == start > RetainedEnd
SpanExceeds == SpanExceedsFrom(start_offset)

\* C19: when the span end_offset - start_offset that the stager computes
\* exceeds the decompressed size, the read fails and nothing is uploaded
\* (data_ is left as it was).
C19_SpanBeyondDataFails ==
  [][(pc = "stage" /\ pc' # "aborted" /\ SpanExceedsFrom(start_offset')) =>
       (pc' = "failed" /\ data_' = data_)]_vars

\* the stager has computed a start beyond the end and the call has failed
C19_Witness == Staged /\ SpanExceeds /\ pc = "failed"

\* ---- C20
\* C20: a reader whose options do not enable lines mode is not constructed
\* (the constructor throws), so no read call runs on it: every call that has
\* started runs in lines mode.
C20_OnlyLinesMode ==
  /\ ~is_enabled_lines =>
       /\ pc = "rejected" /\ calls = 0 /\ trace = <<>> /\ result = NoTable
       /\ ~ENABLED Read
  /\ calls > 0 => is_enabled_lines

\* construction was asked for without lines mode
C20_Witness == ~is_enabled_lines /\ pc = "rejected"

\* ---- C21
\* a piece of work has been issued to a stream other than the call's
IssuedElsewhere == \E i \in 1..Len(issued) : issued[i].on # stream

\* C21: all device work of the call is issued to the stream passed to it; the
\* key aggregation and the sort of the aggregated table are on the same
\* ordered queue as the fill pass that produces their input, and never run
\* before that input is complete.
C21_OneOrderedQueue ==
  /\ ~IssuedElsewhere
  /\ raced \cap {"aggregate", "sort"} = {}

\* C21 for the calls that are given the default stream
C21_OnDefaultStream == stream = DefaultStream => C21_OneOrderedQueue

\* ---- C22
\* the value of one asynchronous copy as the host read it
ReadOf(value) == {observed[i] : i \in {j \in 1..Len(observed) : observed[j].value = value}}

\* C22: the host reads the destination of an asynchronous copy only after a
\* stream synchronization that follows the copy: the first-row length in
\* set_column_names, the key offsets and lengths in create_key_strings.
C22_HostReadsAfterSynchronize ==
  \A value \in {"copy_first_row_len", "copy_offsets", "copy_lens"} :
    \A r \in ReadOf(value) : r.synced

\* C22 for the reads that the code does put after a synchronization: the
\* first row, and the key count
C22_SynchronizedReads ==
  \A value \in {"copy_first_row", "count_keys"} :
    \A r \in ReadOf(value) : r.synced /\ r.complete

\* ---- C23
\* C23: for object rows and any byte-range window, each column name is the
\* literal key text at the first occurrence of its key in the retained
\* records: the (offset, length) that slices the name from the host buffer
\* addresses the bytes of the occurrence harvested from the staged buffer.
\* Stated for the reads in which the occurrences of a hash have one length.
C23_NamesAreKeyTexts ==
  (ObjectsDiscovered /\ OneLengthPerHash) => NamedByFirstOccurrence

\* C23 for the reads whose staged buffer begins at the start of the host buffer
C23_StagedFromStart == start_offset = 0 => C23_NamesAreKeyTexts

\* what the code slices: the host bytes at the offsets of the staged buffer,
\* which lie start_offset bytes before the key
C23_SlicedBeforeTheKey ==
  (ObjectsDiscovered /\ OneLengthPerHash) =>
    \A idx \in 0..(Len(column_names) - 1) :
      \A h \in ColumnHashes(idx) :
        LET first == Occurrences[FirstOccurrenceOf(h)]
        IN  column_names[idx + 1] =
              Slice(uncomp_data_, first.offset, first.offset + first.len)

\* ---- C24
\* the bytes before offset p that are quote bytes number an even count
EvenQuotesBefore(p) == QuotesBefore(uncomp_data_, p) % 2 = 0

\* the entries the quote pass has left valid
KeptByQuotePass == Range(BeforeExclusion)

\* C24: in quote-aware mode with byte_range_offset = 0 the quote pass toggles
\* on every quote byte, one that follows a backslash included: the position
\* after a '\n' (where a record starts, a byte following) is retained in the
\* table iff the number of quote bytes before it is even, and no position
\* recorded after a quote byte is.
C24_RetainedIffEvenQuotes ==
  (Located /\ allow_newlines_in_strings_ /\ byte_range_offset_ = 0) =>
    \A p \in 1..(Len(uncomp_data_) - 1) :
      /\ ByteAt(uncomp_data_, p - 1) = LF => (p \in Range(rec_starts) <=> EvenQuotesBefore(p))
      /\ ByteAt(uncomp_data_, p - 1) = QUOTE => p \notin Range(rec_starts)

\* C24 for the quote pass alone, before the ending newline is excluded: it
\* keeps the position after a '\n' iff the number of quote bytes before it is
\* even, and removes every position recorded after a quote byte.
C24_TogglesOnEveryQuote ==
  (Located /\ allow_newlines_in_strings_ /\ byte_range_offset_ = 0) =>
    \A p \in 1..Len(uncomp_data_) :
      /\ ByteAt(uncomp_data_, p - 1) = LF => (p \in KeptByQuotePass <=> EvenQuotesBefore(p))
      /\ ByteAt(uncomp_data_, p - 1) = QUOTE => p \notin KeptByQuotePass

\* a quote that follows a backslash opens a quoted span: the terminator after
\* it is no boundary, the one after the closing quote is
C24_Witness ==
  /\ Located /\ allow_newlines_in_strings_ /\ byte_range_offset_ = 0
  /\ uncomp_data_ = <<BACKSLASH, QUOTE, LF, QUOTE, LF>>
  /\ BeforeExclusion = <<0, 5>>

\* ---- C25
\* schema discovery has run in this call, on object rows
ObjectsRead ==
  /\ \E i \in 1..Len(trace) : trace[i] = "names"
  /\ IsValidJson(FirstRow(data_, rec_starts))
  /\ RowsAreObjects(FirstRow(data_, rec_starts))

\* the number of columns that come before the column of hash h
Rank(h) == Cardinality({g \in OccurringHashes : FirstOccurrence(g) < FirstOccurrence(h)})

\* C25: after schema discovery on object rows the lookup has exactly one
\* entry per discovered column, it maps the hash of the i-th column to i, so
\* the indices are 0..n-1 and match the positions of the name list; it stays
\* as built through type inference and materialization.
C25_MapIndexesColumns ==
  ObjectsRead =>
    /\ ~key_to_col_idx_map_.is_null
    /\ Cardinality(key_to_col_idx_map_.entries) = Len(column_names)
    /\ {e[2] : e \in key_to_col_idx_map_.entries} = 0..(Len(column_names) - 1)
    /\ key_to_col_idx_map_.entries = {<<h, Rank(h)>> : h \in OccurringHashes}

\* a table of two or more columns has been returned
C25_Witness ==
  /\ ObjectsRead /\ pc = "done"
  /\ Cardinality(key_to_col_idx_map_.entries) >= 2

\* ---- C26
\* the absolute offsets at which the records of the source start
FileRecordStarts ==
  {p \in 0..(Len(sources_[1]) - 1) : p = 0 \/ ByteAt(sources_[1], p - 1) = LF}

\* the record that starts at p belongs to the window [k * S, (k + 1) * S]
\* the reader was given (range_offset = k * S, range_size = S)
InWindow(p) ==
  \/ range_offset < p /\ p <= range_offset + range_size
  \/ p = 0 /\ range_offset = 0

\* the absolute offsets of the records the call has staged and parses
ReturnedRecords ==
  {range_offset + start_offset + rec_starts[i] : i \in 1..Len(rec_starts)}

\* C26: with quote-aware splitting off, one uncompressed source and a window
\* size S > 0, the window k * S, S returns the record that starts at absolute
\* offset p iff k * S < p <= (k + 1) * S, or p = 0 and k = 0; so the windows
\* k = 0, 1, 2, ... return no record twice and each record once.
C26_WindowsPartitionRecords ==
  pc \in {"names", "types", "materialize", "done"} =>
    ReturnedRecords = {p \in FileRecordStarts : InWindow(p)}

\* a window past the first returns a table of some records of the source
\* and leaves the others to other windows
C26_Witness ==
  /\ pc = "done"
  /\ range_offset >= 2
  /\ ReturnedRecords # {}
  /\ Cardinality(FileRecordStarts) >= Cardinality(ReturnedRecords) + 2

\* ---- C27
\* the byte range leaves no entry of the record-start table
NothingRetained == byte_range_offset_ # 0 /\ Retained = <<>>

\* the index at which the trimming loop of the stager stops
ScanStopsAt == TrimScan(rec_starts, Len(rec_starts) - 1, byte_range_size_, Len(uncomp_data_)).it

\* C27: when byte-range trimming leaves no record the read fails with an
\* error before the first retained entry is read: the stager never takes the
\* first element of an empty table (the call is never aborted and never goes
\* on with a value read from it), and its scan never steps before the start
\* of the table.
C27_EmptyWindowFails ==
  /\ (Staged /\ NothingRetained) => pc = "failed"
  /\ (pc = "stage" /\ byte_range_size_ # 0) => ScanStopsAt >= 0

\* C27 for the reads from the start of the input, which always retain entry 0
C27_FromStart == byte_range_offset_ = 0 => C27_EmptyWindowFails

\* ---- C28
\* the bytes the loop over the sources has read in this call
BytesRead ==
  Len(ReadSources(sources_, range_offset,
                  MapRangeSize(range_size, DtypeOptionSize(opt_dtypes, opt_dtypes_by_name))))

\* total_source_size - range_offset does not go below zero
SizeDoesNotWrap == range_offset <= SumLen(sources_)

\* C28: after ingest the length of the raw buffer is the number of bytes
\* read from the sources, for every range_offset, range_size and number of
\* sources: no unread zero-filled tail, no read past the buffer, and the size
\* total_source_size - range_offset never wraps below zero.
C28_BufferIsTheBytesRead ==
  JustRan("ingest") =>
    /\ SizeDoesNotWrap
    /\ BytesRead <= TotalSourceSize(sources_, range_offset)
    /\ pc # "failed" => Len(buffer_) = BytesRead

\* C28 for one source that reaches to range_offset (and is shorter than the
\* padded read)
C28_OneSourceLongEnough ==
  (Len(sources_) = 1 /\ SizeDoesNotWrap) => C28_BufferIsTheBytesRead

\* the reads never go past the buffer when its size has not wrapped
C28_ReadsStayInBuffer ==
  (JustRan("ingest") /\ SizeDoesNotWrap) =>
    BytesRead <= TotalSourceSize(sources_, range_offset)

\* ---- C29
\* the entry is the position after a quote byte
FollowsQuote(entry) == ByteAt(uncomp_data_, entry - 1) = QUOTE

\* C29: in quote-aware mode, for every byte_range_offset, no entry of the
\* final record-start table is immediately preceded by the quote byte: every
\* position recorded because of a quote byte, the first entry of the sorted
\* table included, is removed.
C29_NoEntryFollowsQuote ==
  (Located /\ allow_newlines_in_strings_) =>
    \A i \in 1..Len(rec_starts) : ~FollowsQuote(rec_starts[i])

\* C29 for the reads from the start of the input, whose first sorted entry is
\* the implicit 0
C29_FromStart == byte_range_offset_ = 0 => C29_NoEntryFollowsQuote

\* C29 for every entry but the first of the table
C29_AfterTheFirstEntry ==
  (Located /\ allow_newlines_in_strings_) =>
    \A i \in 2..Len(rec_starts) : ~FollowsQuote(rec_starts[i])

====
